---- MODULE Spec2Model ----
(***************************************************************************)
(* Two independent Node.js servers.                                        *)
(*                                                                         *)
(*   Form Persistence Service ("Full stack--2/index.js"): an express app   *)
(*   whose handlers do an unsynchronised read / modify / write cycle over  *)
(*   one JSON document.  Specification: Spec.                              *)
(*                                                                         *)
(*   Static Asset Server ("Full Stack---1/index.js"): resolves the request *)
(*   url under PUBLIC_DIR, guards with String.startsWith, reads the file.  *)
(*   Specification: SpecStatic.                                            *)
(***************************************************************************)
EXTENDS Integers, Sequences, FiniteSets, TLC

\* ------------------------------------------------------------------ bounds
NumClients == 2      \* requests that can be in flight at the same time
MaxReaders == 1      \* GET requests that can be in flight at the same time
MaxSubmits == 2      \* valid POST /submit requests started in one behaviour
MaxClock   == 2      \* last millisecond the clock reaches
MaxUrlLen  == 6      \* characters in a request url

Clients == 1 .. NumClients

\* JavaScript's undefined (an absent body field, an unused response field)
Undefined == "<undefined>"

\* req.body after express.urlencoded / express.json
Body(n, e, p, m) == [name |-> n, email |-> e, phone |-> p, message |-> m]

ValidBodies ==
    {Body("Ada", "ada@example.com", Undefined, Undefined),
     Body("Bob", "bob@example.com", "555", "hi")}

InvalidBodies ==
    {Body(Undefined, "ada@example.com", "555", "hi"),
     Body("", "ada@example.com", Undefined, Undefined),
     Body("Ada", Undefined, "555", "hi"),
     Body("Ada", "", Undefined, Undefined)}

Bodies == ValidBodies \cup InvalidBodies

VARIABLES
    \* ---- Form Persistence Service
    file,          \* DATA_FILE: [state : absent | json | unparsable,
                   \*             data : the array it parses to, size : characters,
                   \*             head : the document it begins with]
    clock,         \* the system clock, in milliseconds
    pc,            \* per request slot: idle, the pending operation of
                   \* readFile: ropen | rfstat | rread | rmore | rclose, or of
                   \* writeFile: opening | filling | closing
    kind,          \* per slot: the route being handled
    body,          \* per slot: req.body
    raw,           \* per slot: readFile's [size : what fstat reported,
                   \*           file : the content read so far, ioOk : no error]
    existingData,  \* per slot: the handler's local array
    readErr,       \* per slot: readData caught an error in this request
    writeErr,      \* per slot: fs.write failed, the error waits for fs.close
    last,          \* the response sent most recently, with its request
    accepted,      \* bodies of the submissions answered with the success redirect
    overlapped,    \* a submission was in flight together with another request
    storageFailed, \* some read or write of DATA_FILE has failed
    \* ---- Static Asset Server
    url,           \* req.url
    filePath,      \* the resolved path
    spc,           \* received | reading | done
    sres,          \* [status, contentType]
    readIssued     \* readFile was called for this request

formVars   == <<file, clock, pc, kind, body, raw, existingData, readErr, writeErr, last,
                accepted, overlapped, storageFailed>>
staticVars == <<url, filePath, spc, sres, readIssued>>
vars       == <<file, clock, pc, kind, body, raw, existingData, readErr, writeErr, last,
                accepted, overlapped, storageFailed,
                url, filePath, spc, sres, readIssued>>

\* ======================================================================
\*                       Form Persistence Service
\* ======================================================================

\* JavaScript truthiness of a body field: undefined and '' are falsy
Falsy(v) == v = Undefined \/ v = ""

\* v || ''
OrEmpty(v) == IF Falsy(v) THEN "" ELSE v

\* the validation of POST /submit: !name || !email
invalid_nameonly(b) == Falsy(b.name)

invalid(b) == Falsy(b.name) \/ Falsy(b.email)

\* Date.prototype.toISOString of the instant t
toISOString(t) == <<"1970-01-01T00:00:00", t, "Z">>

\* the record built by POST /submit: t is the reading of Date.now(), t2
\* the reading of new Date() five lines later
newSubmission(b, t, t2) ==
    [id        |-> t,
     name      |-> b.name,
     email     |-> b.email,
     phone     |-> OrEmpty(b.phone),
     message   |-> OrEmpty(b.message),
     timestamp |-> toISOString(t2)]

\* Array.prototype.push
push_front(arr, x) == <<x>> \o arr

push_noop(arr, x) == arr

push(arr, x) == Append(arr, x)

\* Array.prototype.reverse
reverse_keep(arr) == arr

RECURSIVE reverse(_)
reverse(arr) == IF arr = <<>> THEN <<>>
                ELSE Append(reverse(Tail(arr)), Head(arr))

AbsentFile == [state |-> "absent", data |-> <<>>, size |-> 0, head |-> <<>>]

\* the file as fs.open(DATA_FILE, 'w') leaves it: present and empty, which
\* JSON.parse rejects
EmptyFile == [state |-> "unparsable", data |-> <<>>, size |-> 0, head |-> <<>>]

\* characters of one record in JSON.stringify(data, null, 2): 145 for the
\* braces, keys, indentation, the 13 digits of id and the 24 characters of
\* timestamp, plus the four strings
recordSize(rec) ==
    145 + Len(rec.name) + Len(rec.email) + Len(rec.phone) + Len(rec.message)

RECURSIVE recordsSize(_)
recordsSize(data) ==
    IF data = <<>> THEN 0 ELSE recordSize(Head(data)) + recordsSize(Tail(data))

\* JSON.stringify(data, null, 2).length
docSize(data) ==
    IF data = <<>> THEN 2
    ELSE 4 + recordsSize(data) + 2 * (Len(data) - 1)

\* existsSync(DATA_FILE)
existsSync(f) == f.state # "absent"

\* readFileAsync + JSON.parse succeed: no I/O error and the content parses
ReadSucceeds(f, ioOk) == ioOk /\ f.state = "json"

\* readData: [] when the file is absent, the parsed array when the read
\* succeeds, and [] from the catch block otherwise; it never throws
readData_rethrow(f, ioOk) ==
    IF ~existsSync(f) THEN [data |-> <<>>, thrown |-> FALSE]
    ELSE IF ReadSucceeds(f, ioOk) THEN [data |-> f.data, thrown |-> FALSE]
    ELSE [data |-> <<>>, thrown |-> TRUE]

readData(f, ioOk) ==
    IF ~existsSync(f) THEN [data |-> <<>>, thrown |-> FALSE]
    ELSE IF ReadSucceeds(f, ioOk) THEN [data |-> f.data, thrown |-> FALSE]
    ELSE [data |-> <<>>, thrown |-> FALSE]

\* writeFileAsync, first part: fs.open with flag 'w' creates or truncates
\* the file; when it fails the file is as it was
openForWrite(f, ioOk) == IF ioOk THEN EmptyFile ELSE f

\* writeFileAsync, second part: the document is written from offset 0
\* through the writer's own descriptor.  It replaces what is there when it
\* is at least as long; a shorter one leaves the tail of a longer document
\* that another writer put there since the truncation, which does not parse.
\* head is the document the file begins with.
writeAtStart(f, data, ioOk) ==
    IF ~ioOk THEN f
    ELSE IF docSize(data) >= f.size
         THEN [state |-> "json", data |-> data, size |-> docSize(data),
               head |-> data]
         ELSE [state |-> "unparsable", data |-> <<>>, size |-> f.size,
               head |-> data]

\* what is not a document: size characters that JSON.parse rejects
Garbled(size) == [state |-> "unparsable", data |-> <<>>, size |-> size, head |-> <<>>]

\* readFileAsync, the first fs.read: n is the size fs.fstat reported.  With
\* n = 0 the size is taken as unknown and the read takes all there is;
\* otherwise it takes at most n characters, so of a file that has grown
\* since only the first n, which parse only when they are exactly the
\* document the file begins with.
readBytes(f, n) ==
    IF n = 0 \/ f.size <= n THEN f
    ELSE IF f.head # <<>> /\ docSize(f.head) = n
         THEN [state |-> "json", data |-> f.head, size |-> n, head |-> f.head]
         ELSE Garbled(n)

\* readFileAsync, a further fs.read at position pos: the characters of the
\* file from pos on, up to n in all when n > 0
moreBytes(f, n, pos) ==
    LET end == IF n = 0 \/ f.size <= n THEN f.size ELSE n
    IN IF end > pos THEN end - pos ELSE 0

\* writeData's try/catch: does an error of writeFileAsync reach the caller
writeDataThrows_rethrow(failed) == failed

writeDataThrows(failed) == FALSE

\* ---- responses
NoRes == [status |-> 0, location |-> Undefined, body |-> <<>>, error |-> Undefined]

redirect(loc) == [status |-> 302, location |-> loc, body |-> <<>>, error |-> Undefined]

RequiredMsg == "/?message=Name and email are required"
ErrorMsg    == "/?message=An error occurred. Please try again."

\* res.render('display', ...) of GET /display, r the result of readData
renderDisplay(r) ==
    IF r.thrown
    THEN [status |-> 200, location |-> Undefined, body |-> <<>>,
          error |-> "Error loading data"]
    ELSE [status |-> 200, location |-> Undefined, body |-> reverse(r.data),
          error |-> Undefined]

\* res.json / res.status(500).json of GET /api/data
jsonData(r) ==
    IF r.thrown
    THEN [status |-> 500, location |-> Undefined, body |-> <<>>,
          error |-> "Error fetching data"]
    ELSE [status |-> 200, location |-> Undefined, body |-> r.data,
          error |-> Undefined]

\* a response as sent: the route, the request body, what readData and
\* writeData went through, and the response itself
Sent(k, b, rerr, werr, r) ==
    [kind |-> k, body |-> b, readErr |-> rerr, writeErr |-> werr, res |-> r]

NoBody == Body(Undefined, Undefined, Undefined, Undefined)

\* a slot that has read nothing
NoRaw == [size |-> 0, file |-> EmptyFile, ioOk |-> TRUE]

InFlight(c) == pc[c] # "idle"

\* the slot a new request takes: the first one not in use
FirstFree(c) == pc[c] = "idle" /\ \A d \in Clients : d < c => InFlight(d)

InFlightSubmit(c) == kind[c] = "submit" /\ InFlight(c)

InFlightGet(c) == kind[c] \in {"display", "api"} /\ InFlight(c)

\* valid submissions started so far
Started == Len(accepted) + Cardinality({c \in Clients : InFlightSubmit(c)})

\* the readings new Date() can give when Date.now() gave the clock's value
LaterReadings == {t \in {clock, clock + 1} : t <= MaxClock}

Init ==
    /\ file = AbsentFile
    /\ clock = 1
    /\ pc = [c \in Clients |-> "idle"]
    /\ kind = [c \in Clients |-> "none"]
    /\ body = [c \in Clients |-> NoBody]
    /\ raw = [c \in Clients |-> NoRaw]
    /\ existingData = [c \in Clients |-> <<>>]
    /\ readErr = [c \in Clients |-> FALSE]
    /\ writeErr = [c \in Clients |-> FALSE]
    /\ last = Sent("none", NoBody, FALSE, FALSE, NoRes)
    /\ accepted = <<>>
    /\ overlapped = FALSE
    /\ storageFailed = FALSE
    /\ url = <<>>
    /\ filePath = <<>>
    /\ spc = "off"
    /\ sres = [status |-> 0, contentType |-> Undefined]
    /\ readIssued = FALSE

\* the clock advances by a millisecond
Tick ==
    /\ clock < MaxClock
    /\ clock' = clock + 1
    /\ UNCHANGED <<file, pc, kind, body, raw, existingData, readErr, writeErr, last,
                   accepted, overlapped, storageFailed>>
    /\ UNCHANGED staticVars

\* the slot is given back once the response is sent
Release(c) ==
    /\ pc' = [pc EXCEPT ![c] = "idle"]
    /\ kind' = [kind EXCEPT ![c] = "none"]
    /\ body' = [body EXCEPT ![c] = NoBody]
    /\ raw' = [raw EXCEPT ![c] = NoRaw]
    /\ existingData' = [existingData EXCEPT ![c] = <<>>]
    /\ readErr' = [readErr EXCEPT ![c] = FALSE]
    /\ writeErr' = [writeErr EXCEPT ![c] = FALSE]

\* POST /submit up to the first await that leaves the event loop turn:
\* validation, then readData's existsSync; with no file the handler goes on
\* to build the record and call writeData in the same turn
Submit(c, b) ==
    /\ FirstFree(c)
    /\ IF invalid(b)
       THEN /\ last' = Sent("submit", b, FALSE, FALSE, redirect(RequiredMsg))
            /\ UNCHANGED <<pc, kind, body, raw, existingData, readErr, writeErr, overlapped,
                           clock>>
       ELSE /\ Started < MaxSubmits
            /\ overlapped' = (overlapped \/ \E d \in Clients \ {c} : InFlight(d))
            /\ kind' = [kind EXCEPT ![c] = "submit"]
            /\ body' = [body EXCEPT ![c] = b]
            /\ IF existsSync(file)
               THEN /\ pc' = [pc EXCEPT ![c] = "ropen"]
                    /\ UNCHANGED <<existingData, clock>>
               ELSE /\ pc' = [pc EXCEPT ![c] = "opening"]
                    /\ \E t2 \in LaterReadings :
                          /\ clock' = t2
                          /\ existingData' = [existingData EXCEPT ![c] =
                                 push(readData(file, TRUE).data,
                                      newSubmission(b, clock, t2))]
            /\ UNCHANGED <<raw, readErr, writeErr, last>>
    /\ UNCHANGED <<file, accepted, storageFailed>>
    /\ UNCHANGED staticVars

\* POST /submit once readFileAsync has settled with the content rw.file, or
\* with an error: readData returns what was read, parsed, or [] from its
\* catch; the record is built and pushed and writeData is called
SubmitBuild(c, rw) ==
    LET r == readData(rw.file, rw.ioOk)
        failed == ~ReadSucceeds(rw.file, rw.ioOk)
    IN /\ storageFailed' = (storageFailed \/ failed)
       /\ IF r.thrown
          THEN /\ last' = Sent("submit", body[c], failed, FALSE, redirect(ErrorMsg))
               /\ Release(c)
               /\ UNCHANGED clock
          ELSE /\ pc' = [pc EXCEPT ![c] = "opening"]
               /\ readErr' = [readErr EXCEPT ![c] = failed]
               /\ raw' = [raw EXCEPT ![c] = NoRaw]
               /\ \E t2 \in LaterReadings :
                     /\ clock' = t2
                     /\ existingData' = [existingData EXCEPT ![c] =
                            push(r.data, newSubmission(body[c], clock, t2))]
               /\ UNCHANGED <<kind, body, writeErr, last>>
       /\ UNCHANGED accepted

\* the rest of POST /submit once writeData has returned or thrown
SubmitRespond(c, failed) ==
    /\ IF writeDataThrows(failed)
       THEN /\ last' = Sent("submit", body[c], readErr[c], failed, redirect(ErrorMsg))
            /\ UNCHANGED accepted
       ELSE /\ last' = Sent("submit", body[c], readErr[c], failed, redirect("/display"))
            /\ accepted' = Append(accepted, body[c])
    /\ Release(c)

\* POST /submit: writeFileAsync has opened the file, or failed to
SubmitOpen(c, ioOk) ==
    /\ kind[c] = "submit" /\ pc[c] = "opening"
    /\ file' = openForWrite(file, ioOk)
    /\ storageFailed' = (storageFailed \/ ~ioOk)
    /\ IF ioOk
       THEN /\ pc' = [pc EXCEPT ![c] = "filling"]
            /\ UNCHANGED <<kind, body, raw, existingData, readErr, writeErr, last,
                           accepted>>
       ELSE SubmitRespond(c, TRUE)
    /\ UNCHANGED <<clock, overlapped>>
    /\ UNCHANGED staticVars

\* POST /submit: fs.write of writeFileAsync has written the document, or
\* failed to; either way fs.close is issued next, and an error is passed on
\* only when that completes
SubmitFill(c, ioOk) ==
    /\ kind[c] = "submit" /\ pc[c] = "filling"
    /\ file' = writeAtStart(file, existingData[c], ioOk)
    /\ storageFailed' = (storageFailed \/ ~ioOk)
    /\ pc' = [pc EXCEPT ![c] = "closing"]
    /\ writeErr' = [writeErr EXCEPT ![c] = ~ioOk]
    /\ UNCHANGED <<kind, body, raw, existingData, readErr, last, accepted>>
    /\ UNCHANGED <<clock, overlapped>>
    /\ UNCHANGED staticVars

\* POST /submit: fs.close of writeFileAsync completes, or fails;
\* writeFileAsync resolves, or rejects with the error of the write or of
\* the close; writeData returns and the response is sent
SubmitClose(c, ioOk) ==
    /\ kind[c] = "submit" /\ pc[c] = "closing"
    /\ storageFailed' = (storageFailed \/ ~ioOk)
    /\ SubmitRespond(c, writeErr[c] \/ ~ioOk)
    /\ UNCHANGED <<file, clock, overlapped>>
    /\ UNCHANGED staticVars

\* the response of a GET handler, r the result of readData
GetResponse(k, r) == IF k = "display" THEN renderDisplay(r) ELSE jsonData(r)

\* a GET handler up to readData's existsSync: with no file it answers in
\* the same turn
GetStart(c, k) ==
    /\ FirstFree(c)
    /\ Cardinality({d \in Clients : InFlightGet(d)}) < MaxReaders
    /\ IF existsSync(file)
       THEN /\ pc' = [pc EXCEPT ![c] = "ropen"]
            /\ kind' = [kind EXCEPT ![c] = k]
            /\ UNCHANGED last
       ELSE /\ last' = Sent(k, NoBody, FALSE, FALSE, GetResponse(k, readData(file, TRUE)))
            /\ UNCHANGED <<pc, kind>>
    /\ overlapped' = (overlapped \/ \E d \in Clients \ {c} : InFlightSubmit(d))
    /\ UNCHANGED <<file, clock, body, raw, existingData, readErr, writeErr,
                   accepted, storageFailed>>
    /\ UNCHANGED staticVars

\* a GET handler once readFileAsync has settled with the content rw.file,
\* or with an error: readData returns and the response is sent
GetAnswer(c, rw) ==
    /\ last' = Sent(kind[c], NoBody, ~ReadSucceeds(rw.file, rw.ioOk), FALSE,
                    GetResponse(kind[c], readData(rw.file, rw.ioOk)))
    /\ storageFailed' = (storageFailed \/ ~ReadSucceeds(rw.file, rw.ioOk))
    /\ Release(c)
    /\ UNCHANGED <<clock, accepted>>

\* the callback of readFileAsync: the awaiting handler goes on in the same
\* turn
ReadDone(c, rw) ==
    IF kind[c] = "submit" THEN SubmitBuild(c, rw) ELSE GetAnswer(c, rw)

\* readFileAsync, fs.open completes: fs.fstat is issued, or, when the open
\* failed, the error is handed to the callback
ReadOpen(c, ioOk) ==
    /\ pc[c] = "ropen"
    /\ IF ioOk
       THEN /\ pc' = [pc EXCEPT ![c] = "rfstat"]
            /\ UNCHANGED <<clock, kind, body, raw, existingData, readErr,
                           writeErr, last, accepted, storageFailed>>
       ELSE ReadDone(c, [raw[c] EXCEPT !.ioOk = FALSE])
    /\ UNCHANGED <<file, overlapped>>
    /\ UNCHANGED staticVars

\* readFileAsync, fs.fstat completes: the size of the file as it is now is
\* how much will be read; fs.read is issued, or fs.close after an error
ReadFstat(c, ioOk) ==
    /\ pc[c] = "rfstat"
    /\ IF ioOk
       THEN /\ raw' = [raw EXCEPT ![c].size = file.size]
            /\ pc' = [pc EXCEPT ![c] = "rread"]
       ELSE /\ raw' = [raw EXCEPT ![c].ioOk = FALSE]
            /\ pc' = [pc EXCEPT ![c] = "rclose"]
    /\ UNCHANGED <<file, clock, kind, body, existingData, readErr, writeErr,
                   last, accepted, overlapped, storageFailed>>
    /\ UNCHANGED staticVars

\* readFileAsync, the first fs.read completes with the characters of the
\* file as it is now; fs.close is issued when the size is reached, nothing
\* was read or the read failed, another fs.read otherwise
ReadRead(c, ioOk) ==
    /\ pc[c] = "rread"
    /\ IF ioOk
       THEN LET got == readBytes(file, raw[c].size)
            IN /\ raw' = [raw EXCEPT ![c].file = got]
               /\ pc' = [pc EXCEPT ![c] =
                             IF got.size = 0 \/ got.size = raw[c].size
                             THEN "rclose" ELSE "rmore"]
       ELSE /\ raw' = [raw EXCEPT ![c].ioOk = FALSE]
            /\ pc' = [pc EXCEPT ![c] = "rclose"]
    /\ UNCHANGED <<file, clock, kind, body, existingData, readErr, writeErr,
                   last, accepted, overlapped, storageFailed>>
    /\ UNCHANGED staticVars

\* readFileAsync, a further fs.read completes: at the end of the file
\* nothing is read and fs.close is issued; characters of a file that has
\* grown since follow those of the file read before, and do not parse
ReadMore(c, ioOk) ==
    /\ pc[c] = "rmore"
    /\ IF ioOk
       THEN LET pos == raw[c].file.size
                got == moreBytes(file, raw[c].size, pos)
            IN IF got = 0
               THEN /\ pc' = [pc EXCEPT ![c] = "rclose"]
                    /\ UNCHANGED raw
               ELSE /\ raw' = [raw EXCEPT ![c].file = Garbled(pos + got)]
                    /\ pc' = [pc EXCEPT ![c] =
                                  IF pos + got = raw[c].size
                                  THEN "rclose" ELSE "rmore"]
       ELSE /\ raw' = [raw EXCEPT ![c].ioOk = FALSE]
            /\ pc' = [pc EXCEPT ![c] = "rclose"]
    /\ UNCHANGED <<file, clock, kind, body, existingData, readErr, writeErr,
                   last, accepted, overlapped, storageFailed>>
    /\ UNCHANGED staticVars

\* readFileAsync, fs.close completes: the content, or the error of the
\* read or of the close, is handed to the callback
ReadClose(c, ioOk) ==
    /\ pc[c] = "rclose"
    /\ ReadDone(c, [raw[c] EXCEPT !.ioOk = @ /\ ioOk])
    /\ UNCHANGED <<file, overlapped>>
    /\ UNCHANGED staticVars

\* GET /display
Display(c) == GetStart(c, "display")

\* GET /api/data
ApiData(c) == GetStart(c, "api")

Next ==
    \/ Tick
    \/ \E c \in Clients, b \in Bodies : Submit(c, b)
    \/ \E c \in Clients : Display(c)
    \/ \E c \in Clients : ApiData(c)
    \/ \E c \in Clients, ioOk \in BOOLEAN : ReadOpen(c, ioOk)
    \/ \E c \in Clients, ioOk \in BOOLEAN : ReadFstat(c, ioOk)
    \/ \E c \in Clients, ioOk \in BOOLEAN : ReadRead(c, ioOk)
    \/ \E c \in Clients, ioOk \in BOOLEAN : ReadMore(c, ioOk)
    \/ \E c \in Clients, ioOk \in BOOLEAN : ReadClose(c, ioOk)
    \/ \E c \in Clients, ioOk \in BOOLEAN : SubmitOpen(c, ioOk)
    \/ \E c \in Clients, ioOk \in BOOLEAN : SubmitFill(c, ioOk)
    \/ \E c \in Clients, ioOk \in BOOLEAN : SubmitClose(c, ioOk)

Spec == Init /\ [][Next]_vars

\* ======================================================================
\*                          Static Asset Server
\* ======================================================================
\* A string is the sequence of its characters.  The server's directory is
\* "/", so PUBLIC_DIR, resolve(__dirname, 'public'), is "/p" once the
\* directory name is cut to one letter.

Alphabet == {"/", ".", "p", "j", "s"}

PUBLIC_DIR == <<"/", "p">>

IndexHtml == <<"/", "i", "n", "d", "e", "x", ".", "h", "t", "m", "l">>

\* the request urls: every string over Alphabet that starts with "/"
Urls == {u \in UNION {[1 .. n -> Alphabet] : n \in 1 .. MaxUrlLen} : u[1] = "/"}

\* String.prototype.startsWith
startsWith(str, prefix) ==
    /\ Len(str) >= Len(prefix)
    /\ SubSeq(str, 1, Len(prefix)) = prefix

\* str.split('/')
RECURSIVE splitPath(_, _, _)
splitPath(str, cur, acc) ==
    IF str = <<>> THEN Append(acc, cur)
    ELSE IF Head(str) = "/" THEN splitPath(Tail(str), <<>>, Append(acc, cur))
    ELSE splitPath(Tail(str), Append(cur, Head(str)), acc)

\* path normalisation: '' and '.' are dropped, '..' removes the segment
\* before it and is dropped at the root
RECURSIVE normalizeSegments(_, _)
normalizeSegments(segs, acc) ==
    IF segs = <<>> THEN acc
    ELSE LET h == Head(segs)
         IN IF h = <<>> \/ h = <<".">> THEN normalizeSegments(Tail(segs), acc)
            ELSE IF h = <<".", ".">>
                 THEN normalizeSegments(Tail(segs),
                          IF acc = <<>> THEN acc ELSE SubSeq(acc, 1, Len(acc) - 1))
                 ELSE normalizeSegments(Tail(segs), Append(acc, h))

RECURSIVE joinPath(_)
joinPath(segs) ==
    IF segs = <<>> THEN <<>> ELSE <<"/">> \o Head(segs) \o joinPath(Tail(segs))

\* path.resolve(from, to) on POSIX, from absolute
resolve(from, to) ==
    LET whole == IF to # <<>> /\ Head(to) = "/" THEN to ELSE from \o <<"/">> \o to
        segs  == normalizeSegments(splitPath(whole, <<>>, <<>>), <<>>)
    IN IF segs = <<>> THEN <<"/">> ELSE joinPath(segs)

\* index of the last '.' of str, 0 when there is none
RECURSIVE lastDot(_, _)
lastDot(str, i) ==
    IF i = 0 THEN 0 ELSE IF str[i] = "." THEN i ELSE lastDot(str, i - 1)

\* path.extname: from the last '.' of the last segment, '' when there is
\* no '.' or it is the segment's first character
extname(path) ==
    LET segs == splitPath(path, <<>>, <<>>)
        base == segs[Len(segs)]
        d    == lastDot(base, Len(base))
    IN IF d <= 1 THEN <<>> ELSE SubSeq(base, d, Len(base))

\* mimeTypes[ext] || 'application/octet-stream'
mimeTypes(ext) ==
    CASE ext = <<".", "h", "t", "m", "l">> -> "text/html"
      [] ext = <<".", "c", "s", "s">>      -> "text/css"
      [] ext = <<".", "j", "s">>           -> "application/javascript"
      [] ext = <<".", "p", "n", "g">>      -> "image/png"
      [] ext = <<".", "j", "p", "g">>      -> "image/jpeg"
      [] ext = <<".", "g", "i", "f">>      -> "image/gif"
      [] ext = <<".", "i", "c", "o">>      -> "image/x-icon"
      [] OTHER                             -> "application/octet-stream"

InitStatic ==
    /\ file = AbsentFile
    /\ clock = 1
    /\ pc = [c \in Clients |-> "idle"]
    /\ kind = [c \in Clients |-> "none"]
    /\ body = [c \in Clients |-> NoBody]
    /\ raw = [c \in Clients |-> NoRaw]
    /\ existingData = [c \in Clients |-> <<>>]
    /\ readErr = [c \in Clients |-> FALSE]
    /\ writeErr = [c \in Clients |-> FALSE]
    /\ last = Sent("none", NoBody, FALSE, FALSE, NoRes)
    /\ accepted = <<>>
    /\ overlapped = FALSE
    /\ storageFailed = FALSE
    /\ url \in Urls
    /\ filePath = <<>>
    /\ spc = "received"
    /\ sres = [status |-> 0, contentType |-> Undefined]
    /\ readIssued = FALSE

\* the request handler up to the readFile call
Handle ==
    /\ spc = "received"
    /\ LET path == resolve(PUBLIC_DIR, <<".">> \o (IF url = <<"/">> THEN IndexHtml ELSE url))
       IN /\ filePath' = path
          /\ IF ~startsWith(path, PUBLIC_DIR)
             THEN /\ sres' = [status |-> 403, contentType |-> Undefined]
                  /\ spc' = "done"
                  /\ UNCHANGED readIssued
             ELSE /\ readIssued' = TRUE
                  /\ spc' = "reading"
                  /\ UNCHANGED sres
    /\ UNCHANGED url
    /\ UNCHANGED formVars

\* the readFile callback
ReadFileDone(err) ==
    /\ spc = "reading"
    /\ spc' = "done"
    /\ sres' = IF err THEN [status |-> 404, contentType |-> Undefined]
               ELSE [status |-> 200, contentType |-> mimeTypes(extname(filePath))]
    /\ UNCHANGED <<url, filePath, readIssued>>
    /\ UNCHANGED formVars

NextStatic ==
    \/ Handle
    \/ \E err \in BOOLEAN : ReadFileDone(err)

SpecStatic == InitStatic /\ [][NextStatic]_vars

\* ======================================================================
\*                               Properties
\* ======================================================================

\* the path lies in the tree of the public root
InsideRoot(path) == path = PUBLIC_DIR \/ startsWith(path, PUBLIC_DIR \o <<"/">>)

\* C1: a request whose resolved path lies outside the public root is
\* answered 403 and no file read is issued for it.
C1_OutsideForbidden ==
    (spc \in {"reading", "done"} /\ ~InsideRoot(filePath))
        => (sres.status = 403 /\ ~readIssued)

\* the record carries the fields of the submitted body, phone and message
\* defaulting to the empty string
Matches(rec, b) ==
    /\ rec.name = b.name
    /\ rec.email = b.email
    /\ rec.phone = (IF b.phone = Undefined THEN "" ELSE b.phone)
    /\ rec.message = (IF b.message = Undefined THEN "" ELSE b.message)

Missing(v) == v = Undefined \/ v = ""

AllIdle == \A c \in Clients : pc[c] = "idle"

\* C2: a POST /submit whose name or email is absent or empty leaves the
\* document as it was, starts no write, and is answered with the redirect
\* to the form carrying the error message; and every persisted record has
\* a non-empty name and a non-empty email.
C2_InvalidNeverPersisted ==
    /\ [](\A i \in 1 .. Len(file.data) :
              ~Missing(file.data[i].name) /\ ~Missing(file.data[i].email))
    /\ [][\A c \in Clients, b \in Bodies :
              (Submit(c, b) /\ (Missing(b.name) \/ Missing(b.email)))
                  => /\ file' = file
                     /\ accepted' = accepted
                     /\ pc'[c] = "idle"
                     /\ last'.body = b
                     /\ last'.res.status = 302
                     /\ last'.res.location = RequiredMsg]_vars

C2_Witness ==
    /\ last.kind = "submit"
    /\ Missing(last.body.email)
    /\ last.res.location = RequiredMsg
    /\ Len(file.data) = 1
    /\ AllIdle

\* the step in which slot c answers a GET of route k
Answers(c, k) ==
    \/ kind[c] = k /\ pc[c] \in {"ropen", "rclose"} /\ pc'[c] = "idle"
    \/ pc[c] = "idle" /\ ~existsSync(file) /\ GetStart(c, k)

\* C3: from an absent document, when no submission overlapped another
\* request and no storage operation failed, GET /api/data answers with exactly one record
\* per accepted submission, the i-th carrying the i-th submission's fields.
C3_RoundTrip ==
    [][\A c \in Clients :
          (Answers(c, "api") /\ ~storageFailed' /\ ~overlapped')
              => /\ last'.res.status = 200
                 /\ Len(last'.res.body) = Len(accepted)
                 /\ \A i \in 1 .. Len(accepted) :
                        Matches(last'.res.body[i], accepted[i])]_vars

C3_Witness ==
    /\ last.kind = "api"
    /\ ~storageFailed /\ ~overlapped
    /\ Len(accepted) = MaxSubmits
    /\ Len(last.res.body) = MaxSubmits
    /\ accepted[1] # accepted[2]
    /\ \E i \in 1 .. Len(accepted) :
           accepted[i].phone = Undefined /\ last.res.body[i].phone = ""

\* C4: identifiers strictly increase along the persisted collection (so
\* no two records share one).
C4_IdsIncrease ==
    \A i, j \in 1 .. Len(file.data) :
        i < j => file.data[i].id < file.data[j].id

IsReverse(a, b) ==
    /\ Len(a) = Len(b)
    /\ \A i \in 1 .. Len(a) : a[i] = b[Len(b) + 1 - i]

\* a step of readFile (open, fstat, read) for slot c's GET of route k
Reads(c, k) ==
    /\ kind[c] = k /\ pc[c] \in {"ropen", "rfstat", "rread", "rmore"}
    /\ pc'[c] # pc[c]

\* the step in which the first fs.read for slot c gives all it was asked
\* for from a file as long as fstat found it
ReadsWhole(c) ==
    /\ pc[c] = "rread" /\ pc'[c] = "rclose" /\ raw'[c].ioOk
    /\ file.size = raw[c].size

\* C5: GET /display shows the records of the collection it read in the
\* reverse of their insertion order, GET /api/data in insertion order, and
\* neither the read nor the answer of either changes the document.
C5_DisplayReversed ==
    [][\A c \in Clients :
          /\ (Answers(c, "display") /\ ~last'.readErr)
                 => (IsReverse(last'.res.body, raw[c].file.data) /\ file' = file)
          /\ (Answers(c, "api") /\ ~last'.readErr)
                 => (last'.res.body = raw[c].file.data /\ file' = file)
          /\ (Reads(c, "display") \/ Reads(c, "api")) => file' = file
          /\ (kind[c] \in {"display", "api"} /\ ReadsWhole(c))
                 => raw'[c].file = file]_vars

C5_Witness ==
    /\ last.kind = "display"
    /\ ~last.readErr
    /\ Len(file.data) = 2
    /\ file.data[1] # file.data[2]
    /\ last.res.body = <<file.data[2], file.data[1]>>

\* C6: a GET /api/data whose read of the document failed is answered with
\* status 500 and an error object.
C6_ReadFailure500 ==
    (last.kind = "api" /\ last.readErr)
        => (last.res.status = 500 /\ last.res.error # Undefined)

\* C7: a GET /display whose read of the document failed renders an empty
\* list together with an error indicator.
C7_DisplayErrorIndicator ==
    (last.kind = "display" /\ last.readErr)
        => (last.res.body = <<>> /\ last.res.error # Undefined)

Closing == {c \in Clients : kind[c] = "submit" /\ pc[c] = "closing"}

Filling == {c \in Clients : kind[c] = "submit" /\ pc[c] = "filling"}

\* C8: with no storage failure the document never holds more records than
\* submissions have written it (answered with the success redirect, or
\* about to be); as long as no submission overlapped another request it
\* holds exactly that many, except while the one writer has it truncated;
\* once two overlap it can hold fewer (the witness).
C8_CountUnlessOverlap ==
    ~storageFailed
        => /\ Len(file.data) <= Len(accepted) + Cardinality(Closing)
           /\ ~overlapped =>
                  Len(file.data) = (IF Filling # {} THEN 0
                                    ELSE Len(accepted) + Cardinality(Closing))

C8_Witness ==
    /\ ~storageFailed
    /\ overlapped
    /\ AllIdle
    /\ Len(accepted) = 2
    /\ last.res.location = "/display"
    /\ file.state = "json"
    /\ Len(file.data) = 1

\* the step in which slot c, whose read failed, goes on or answers
ReadFailedStep(c) ==
    /\ kind[c] = "submit" /\ pc[c] \in {"ropen", "rclose"}
    /\ \/ pc'[c] = "opening" /\ readErr'[c]
       \/ pc'[c] = "idle" /\ last'.readErr

\* the step in which slot c, whose read failed and whose write succeeded,
\* is answered
AnsweredAfterReadFailure(c) ==
    /\ kind[c] = "submit" /\ pc[c] = "closing" /\ readErr[c]
    /\ pc'[c] = "idle" /\ ~last'.writeErr

OnlyNewRecord(c) ==
    /\ file'.state = "json"
    /\ Len(file'.data) = 1
    /\ Matches(file'.data[1], body[c])
    /\ last'.res = redirect("/display")

\* C9 as claimed: whenever a valid POST /submit whose read failed and whose
\* write succeeded is answered, the document holds exactly the new record
\* and the answer is the redirect to /display.
C9_Original ==
    [][\A c \in Clients : AnsweredAfterReadFailure(c) => OnlyNewRecord(c)]_vars

\* C9, amended: when the read of a valid POST /submit fails the handler
\* goes on to the write with a collection of just the new record; when the
\* write succeeds the answer is the redirect to /display, and if no other
\* request overlapped a submission the document then holds exactly that
\* record.
C9_ReadFailureOverwrites ==
    [][\A c \in Clients :
          /\ ReadFailedStep(c)
                 => /\ pc'[c] = "opening"
                    /\ Len(existingData'[c]) = 1
                    /\ Matches(existingData'[c][1], body[c])
          /\ AnsweredAfterReadFailure(c)
                 => /\ last'.res = redirect("/display")
                    /\ ~overlapped => OnlyNewRecord(c)]_vars

C9_Witness ==
    /\ last.kind = "submit"
    /\ last.readErr /\ ~last.writeErr
    /\ last.res.location = "/display"
    /\ ~overlapped
    /\ Len(accepted) = 2
    /\ accepted[1] # accepted[2]
    /\ file.state = "json"
    /\ Len(file.data) = 1
    /\ Matches(file.data[1], accepted[2])

\* the step in which slot c is answered after an error of writeFileAsync
AnsweredAfterWriteFailure(c) ==
    /\ kind[c] = "submit" /\ pc[c] \in {"opening", "closing"}
    /\ pc'[c] = "idle" /\ last'.writeErr

\* the record slot c built
NewRecord(c) == existingData[c][Len(existingData[c])]

\* C10 as claimed: whenever a valid POST /submit whose write failed is
\* answered, the answer is the redirect to /display and the new record is
\* not in the document.
C10_Original ==
    [][\A c \in Clients :
          AnsweredAfterWriteFailure(c)
              => /\ last'.res = redirect("/display")
                 /\ \A i \in 1 .. Len(file'.data) : file'.data[i] # NewRecord(c)]_vars

\* the collection slot c read, to which it pushed its record
Front(arr) == SubSeq(arr, 1, Len(arr) - 1)

\* C10, amended: when writeFileAsync fails in a valid POST /submit the
\* answer is still the redirect to /display.  If no other request
\* overlapped a submission, the document is then: after a failed open that
\* followed a successful read, the collection the request read, without the
\* new record; after a failed write, empty, holding no record; after a
\* failed close alone, the collection with the new record last.
C10_WriteFailureSuccessRedirect ==
    [][\A c \in Clients :
          AnsweredAfterWriteFailure(c)
              => /\ last'.res = redirect("/display")
                 /\ ~overlapped =>
                       /\ (pc[c] = "opening" /\ ~readErr[c])
                              => /\ file'.state \in {"absent", "json"}
                                 /\ file'.data = Front(existingData[c])
                       /\ (pc[c] = "closing" /\ writeErr[c])
                              => file' = EmptyFile
                       /\ (pc[c] = "closing" /\ ~writeErr[c])
                              => /\ file'.state = "json"
                                 /\ file'.data = existingData[c]]_vars

\* a close failed after the second of two submissions had been written
C10_Witness ==
    /\ last.kind = "submit"
    /\ last.writeErr /\ ~last.readErr
    /\ last.res.location = "/display"
    /\ ~overlapped
    /\ AllIdle
    /\ Len(accepted) = 2
    /\ accepted[1] # accepted[2]
    /\ file.state = "json"
    /\ Len(file.data) = 2
    /\ Matches(file.data[2], last.body)
====
